---- MODULE Spec2Model ----
(***************************************************************************)
(* Z.AI request signing (docs/参考/signature.py).                          *)
(*                                                                         *)
(* A Python str is modelled as a sequence of one-character strings, a      *)
(* Python bytes object as a sequence of integers 0..255, a Python object   *)
(* whose type matters (a parsed JSON value, a field of the result dict) as *)
(* a record tagged with its type.  HMAC-SHA256 is the ideal keyed hash: a  *)
(* free constructor over (key, message), hence collision-free.             *)
(***************************************************************************)
EXTENDS Integers, Sequences, FiniteSets, TLC

VARIABLES token, request_id, timestamp, user_content,
          pc, exc, user_id, log, e, o, i, result, raised

vars == <<token, request_id, timestamp, user_content,
          pc, exc, user_id, log, e, o, i, result, raised>>

inputs == <<token, request_id, timestamp, user_content>>

-----------------------------------------------------------------------------
(* Characters and bytes *)

\* Code point 96, which TLA+ string syntax cannot write, under a name.
Grave == "<grave>"

\* The printable ASCII characters, code points 32..126, in order.
Ascii ==
  <<" ","!","\"","#","$","%","&","'","(",")","*","+",",","-",".","/",
    "0","1","2","3","4","5","6","7","8","9",":",";","<","=",">","?",
    "@","A","B","C","D","E","F","G","H","I","J","K","L","M","N","O",
    "P","Q","R","S","T","U","V","W","X","Y","Z","[","\\","]","^","_",
    Grave,"a","b","c","d","e","f","g","h","i","j","k","l","m","n","o",
    "p","q","r","s","t","u","v","w","x","y","z","{","|","}","~">>

\* chr() on the printable ASCII range.
Chr(b) == Ascii[b - 31]

\* The code point of each printable ASCII character.
CodePoint ==
  [c \in {Ascii[k] : k \in 1..Len(Ascii)} |->
     31 + (CHOOSE k \in 1..Len(Ascii) : Ascii[k] = c)]

\* ord() on the printable ASCII range.
Ord(c) == CodePoint[c]

\* s.encode('utf-8') of an ASCII str: one byte per character.
EncodeUtf8(s) == [k \in 1..Len(s) |-> Ord(s[k])]

RECURSIVE Repeat(_, _)
\* c * k
Repeat(c, k) == IF k <= 0 THEN <<>> ELSE <<c>> \o Repeat(c, k - 1)

\* A Python str and a Python int as objects that carry their type.
PyStr(s) == [t |-> "str", s |-> s]
PyInt(n) == [t |-> "int", n |-> n]
PyNone == [t |-> "None"]
PyBool(b) == [t |-> "bool", b |-> b]
PyList(elems) == [t |-> "list", elems |-> elems]
PyDict(pairs) == [t |-> "dict", pairs |-> pairs]

-----------------------------------------------------------------------------
(* str(int) *)

DecimalDigits == <<"0","1","2","3","4","5","6","7","8","9">>

RECURSIVE DigitsOf(_)
DigitsOf(n) ==
  IF n < 10 THEN <<DecimalDigits[n + 1]>>
  ELSE DigitsOf(n \div 10) \o <<DecimalDigits[(n % 10) + 1]>>

\* str(n) of a Python int: base 10, a leading "-" when negative.
StrOfInt(n) == IF n < 0 THEN <<"-">> \o DigitsOf(-n) ELSE DigitsOf(n)

-----------------------------------------------------------------------------
(* token.split on the dot *)

RECURSIVE SplitFrom(_, _, _)
\* The segments of s from position k on, cur being the segment in progress.
SplitFrom(s, k, cur) ==
  IF k > Len(s) THEN <<cur>>
  ELSE IF s[k] = "." THEN <<cur>> \o SplitFrom(s, k + 1, <<>>)
  ELSE SplitFrom(s, k + 1, Append(cur, s[k]))

\* str.split on ".": always at least one segment.
Split(s) == SplitFrom(s, 1, <<>>)

-----------------------------------------------------------------------------
(* base64.urlsafe_b64decode *)

\* The standard base64 alphabet; a character's value is its index minus 1.
B64Alphabet ==
  <<"A","B","C","D","E","F","G","H","I","J","K","L","M","N","O","P",
    "Q","R","S","T","U","V","W","X","Y","Z","a","b","c","d","e","f",
    "g","h","i","j","k","l","m","n","o","p","q","r","s","t","u","v",
    "w","x","y","z","0","1","2","3","4","5","6","7","8","9","+","/">>

\* The URL-safe translation applied before decoding: - to +, _ to /.
UrlsafeTranslate(c) == IF c = "-" THEN "+" ELSE IF c = "_" THEN "/" ELSE c

\* The 6-bit value of a character, 64 for a character outside the alphabet.
B64Value(c) ==
  IF \E k \in 1..64 : B64Alphabet[k] = c
  THEN (CHOOSE k \in 1..64 : B64Alphabet[k] = c) - 1
  ELSE 64

RECURSIVE A2bBase64(_, _, _, _, _, _)
\* binascii.a2b_base64 in its default, non-strict mode: characters outside
\* the alphabet are skipped, a completed pad sequence ends the input, and a
\* trailing incomplete quad is an error.
A2bBase64(s, k, quad_pos, leftchar, pads, data) ==
  IF k > Len(s) THEN
    IF quad_pos # 0 THEN [ok |-> FALSE, exc |-> "binascii.Error"]
    ELSE [ok |-> TRUE, data |-> data]
  ELSE IF s[k] = "=" THEN
    IF quad_pos >= 2 /\ quad_pos + pads + 1 >= 4
    THEN [ok |-> TRUE, data |-> data]
    ELSE A2bBase64(s, k + 1, quad_pos, leftchar,
                   IF quad_pos >= 2 THEN pads + 1 ELSE pads, data)
  ELSE LET this_ch == B64Value(s[k]) IN
    IF this_ch >= 64 THEN A2bBase64(s, k + 1, quad_pos, leftchar, pads, data)
    ELSE CASE quad_pos = 0 ->
                A2bBase64(s, k + 1, 1, this_ch, 0, data)
           [] quad_pos = 1 ->
                A2bBase64(s, k + 1, 2, this_ch % 16, 0,
                          Append(data, leftchar * 4 + this_ch \div 16))
           [] quad_pos = 2 ->
                A2bBase64(s, k + 1, 3, this_ch % 4, 0,
                          Append(data, leftchar * 16 + this_ch \div 4))
           [] quad_pos = 3 ->
                A2bBase64(s, k + 1, 0, 0, 0,
                          Append(data, leftchar * 64 + this_ch))

\* base64.urlsafe_b64decode(s) for an ASCII str s.
UrlsafeB64Decode(s) ==
  A2bBase64([k \in 1..Len(s) |-> UrlsafeTranslate(s[k])], 1, 0, 0, 0, <<>>)

-----------------------------------------------------------------------------
(* json.loads on bytes *)
(* Modelled for payload bytes that are ASCII text without backslash        *)
(* escapes, fractions, exponents, NaN or Infinity; every token of Tokens   *)
(* decodes inside that domain or to bytes that are not UTF-8 at all.       *)

\* Any control character other than tab, line feed and carriage return.
Ctl == "<ctl>"
\* Code point 127.
Del == "<del>"

\* bytes.decode('utf-8') on the modelled domain: a byte above 127 is taken
\* as malformed UTF-8.
DecodeText(data) ==
  IF \E k \in 1..Len(data) : data[k] >= 128
  THEN [ok |-> FALSE, exc |-> "UnicodeDecodeError"]
  ELSE [ok |-> TRUE,
        text |-> [k \in 1..Len(data) |->
                    IF data[k] = 9 THEN "\t"
                    ELSE IF data[k] = 10 THEN "\n"
                    ELSE IF data[k] = 13 THEN "\r"
                    ELSE IF data[k] < 32 THEN Ctl
                    ELSE IF data[k] = 127 THEN Del
                    ELSE Chr(data[k])]]

JsonWhitespace == {" ", "\t", "\n", "\r"}

NoParse == [ok |-> FALSE]
Parsed(val, end) == [ok |-> TRUE, val |-> val, end |-> end]

RECURSIVE SkipWs(_, _)
\* The first position at or after k that holds no JSON whitespace.
SkipWs(s, k) ==
  IF k <= Len(s) /\ s[k] \in JsonWhitespace THEN SkipWs(s, k + 1) ELSE k

\* s has the literal lit at position k.
HasAt(s, k, lit) ==
  /\ k + Len(lit) - 1 <= Len(s)
  /\ \A j \in 1..Len(lit) : s[k + j - 1] = lit[j]

RECURSIVE ScanString(_, _, _)
\* The string whose opening quote precedes position k.
ScanString(s, k, acc) ==
  IF k > Len(s) THEN NoParse
  ELSE IF s[k] = "\"" THEN Parsed(PyStr(acc), k + 1)
  ELSE IF s[k] \in {"\\", "\t", "\n", "\r", Ctl} THEN NoParse
  ELSE ScanString(s, k + 1, Append(acc, s[k]))

IsDigit(c) == \E d \in 1..10 : DecimalDigits[d] = c
DigitValue(c) == (CHOOSE d \in 1..10 : DecimalDigits[d] = c) - 1

RECURSIVE ScanDigits(_, _, _)
\* The run of digits from k on, as a number continuing acc.
ScanDigits(s, k, acc) ==
  IF k <= Len(s) /\ IsDigit(s[k])
  THEN ScanDigits(s, k + 1, acc * 10 + DigitValue(s[k]))
  ELSE [n |-> acc, end |-> k]

\* An integer literal at k: -?(0|[1-9][0-9]*)
ScanNumber(s, k) ==
  LET neg == k <= Len(s) /\ s[k] = "-"
      d == IF neg THEN k + 1 ELSE k
  IN IF d > Len(s) \/ ~IsDigit(s[d]) THEN NoParse
     ELSE IF s[d] = "0" THEN Parsed(PyInt(0), d + 1)
     ELSE LET run == ScanDigits(s, d, 0)
          IN Parsed(PyInt(IF neg THEN -run.n ELSE run.n), run.end)

\* d[key] = val on a dict kept as its pairs in insertion order: a repeated
\* key keeps its place and takes the new value.
DictSet(pairs, key, val) ==
  IF \E k \in 1..Len(pairs) : pairs[k][1] = key
  THEN [k \in 1..Len(pairs) |->
          IF pairs[k][1] = key THEN <<key, val>> ELSE pairs[k]]
  ELSE Append(pairs, <<key, val>>)

RECURSIVE ScanValue(_, _), ScanArrayItems(_, _, _), ScanObjectItems(_, _, _)

\* The elements of an array, k being the position of the next value.
ScanArrayItems(s, k, elems) ==
  LET v == ScanValue(s, k) IN
  IF ~v.ok THEN NoParse
  ELSE LET after == SkipWs(s, v.end) IN
    IF after > Len(s) THEN NoParse
    ELSE IF s[after] = "]" THEN Parsed(PyList(Append(elems, v.val)), after + 1)
    ELSE IF s[after] = ","
      THEN ScanArrayItems(s, SkipWs(s, after + 1), Append(elems, v.val))
    ELSE NoParse

\* The members of an object, k being the position of the next key's quote.
ScanObjectItems(s, k, pairs) ==
  IF k > Len(s) \/ s[k] # "\"" THEN NoParse
  ELSE LET key == ScanString(s, k + 1, <<>>) IN
    IF ~key.ok THEN NoParse
    ELSE LET colon == SkipWs(s, key.end) IN
      IF colon > Len(s) \/ s[colon] # ":" THEN NoParse
      ELSE LET v == ScanValue(s, SkipWs(s, colon + 1)) IN
        IF ~v.ok THEN NoParse
        ELSE LET after == SkipWs(s, v.end)
                 more == DictSet(pairs, key.val.s, v.val)
             IN IF after > Len(s) THEN NoParse
                ELSE IF s[after] = "}" THEN Parsed(PyDict(more), after + 1)
                ELSE IF s[after] = ","
                  THEN ScanObjectItems(s, SkipWs(s, after + 1), more)
                ELSE NoParse

\* One JSON value starting exactly at k.
ScanValue(s, k) ==
  IF k > Len(s) THEN NoParse
  ELSE IF s[k] = "\"" THEN ScanString(s, k + 1, <<>>)
  ELSE IF s[k] = "{" THEN
    LET first == SkipWs(s, k + 1) IN
    IF first <= Len(s) /\ s[first] = "}" THEN Parsed(PyDict(<<>>), first + 1)
    ELSE ScanObjectItems(s, first, <<>>)
  ELSE IF s[k] = "[" THEN
    LET first == SkipWs(s, k + 1) IN
    IF first <= Len(s) /\ s[first] = "]" THEN Parsed(PyList(<<>>), first + 1)
    ELSE ScanArrayItems(s, first, <<>>)
  ELSE IF HasAt(s, k, <<"n","u","l","l">>) THEN Parsed(PyNone, k + 4)
  ELSE IF HasAt(s, k, <<"t","r","u","e">>) THEN Parsed(PyBool(TRUE), k + 4)
  ELSE IF HasAt(s, k, <<"f","a","l","s","e">>) THEN Parsed(PyBool(FALSE), k + 5)
  ELSE ScanNumber(s, k)

\* json.loads(data): one value between optional whitespace, nothing after.
JsonLoads(data) ==
  LET txt == DecodeText(data) IN
  IF ~txt.ok THEN txt
  ELSE LET v == ScanValue(txt.text, SkipWs(txt.text, 1)) IN
    IF v.ok /\ SkipWs(txt.text, v.end) = Len(txt.text) + 1
    THEN [ok |-> TRUE, val |-> v.val]
    ELSE [ok |-> FALSE, exc |-> "JSONDecodeError"]

-----------------------------------------------------------------------------
(* decode_jwt_payload *)

\* Variant: the padding appended without the test of line 31.
PaddingAlways(len) == 4 - (len % 4)

\* The '=' padding line 30-32 appends to a payload segment of length len.
PaddingFor(len) ==
  LET padding == 4 - (len % 4) IN IF padding # 4 THEN padding ELSE 0

\* The payload as handed to the base64 decoder.
PaddedPayload(payload) == payload \o Repeat("=", PaddingFor(Len(payload)))

\* Variant: the last segment taken for the payload.
LastSegment(parts) == parts[Len(parts)]

\* parts[1], the second segment.
PayloadSegment(parts) == parts[2]

\* decode_jwt_payload(token): the parsed payload, or the exception raised.
decode_jwt_payload(tok) ==
  LET parts == Split(tok) IN
  IF Len(parts) < 2 THEN [ok |-> FALSE, exc |-> "IndexError"]
  ELSE LET payload == PayloadSegment(parts)
           decoded == UrlsafeB64Decode(PaddedPayload(payload))
       IN IF ~decoded.ok THEN decoded ELSE JsonLoads(decoded.data)

\* Variant: payload.get(key), None for a key the dict does not hold.
SubscriptGet(payload, key) ==
  IF payload.t = "dict"
  THEN IF \E k \in 1..Len(payload.pairs) : payload.pairs[k][1] = key
       THEN [ok |-> TRUE,
             val |-> payload.pairs[CHOOSE k \in 1..Len(payload.pairs) :
                                     payload.pairs[k][1] = key][2]]
       ELSE [ok |-> TRUE, val |-> PyNone]
  ELSE [ok |-> FALSE, exc |-> "AttributeError"]

\* payload[key] for a parsed payload of any JSON type.
Subscript(payload, key) ==
  IF payload.t = "dict"
  THEN IF \E k \in 1..Len(payload.pairs) : payload.pairs[k][1] = key
       THEN [ok |-> TRUE,
             val |-> payload.pairs[CHOOSE k \in 1..Len(payload.pairs) :
                                     payload.pairs[k][1] = key][2]]
       ELSE [ok |-> FALSE, exc |-> "KeyError"]
  ELSE [ok |-> FALSE, exc |-> "TypeError"]

-----------------------------------------------------------------------------
(* Formatting a value into an f-string *)

RECURSIVE JoinWith(_, _)
\* sep.join(parts)
JoinWith(sep, parts) ==
  IF parts = <<>> THEN <<>>
  ELSE IF Len(parts) = 1 THEN parts[1]
  ELSE parts[1] \o sep \o JoinWith(sep, Tail(parts))

\* repr() of a str of printable characters without backslash or double
\* quote: single quotes, double quotes when it holds a single quote.
ReprOfStr(s) ==
  IF \E k \in 1..Len(s) : s[k] = "'"
  THEN <<"\"">> \o s \o <<"\"">>
  ELSE <<"'">> \o s \o <<"'">>

RECURSIVE Repr(_)
\* repr() of a parsed JSON value.
Repr(v) ==
  CASE v.t = "str" -> ReprOfStr(v.s)
    [] v.t = "int" -> StrOfInt(v.n)
    [] v.t = "None" -> <<"N","o","n","e">>
    [] v.t = "bool" -> IF v.b THEN <<"T","r","u","e">>
                       ELSE <<"F","a","l","s","e">>
    [] v.t = "list" ->
         <<"[">> \o JoinWith(<<",", " ">>,
                             [k \in 1..Len(v.elems) |-> Repr(v.elems[k])])
                 \o <<"]">>
    [] v.t = "dict" ->
         <<"{">> \o JoinWith(<<",", " ">>,
                             [k \in 1..Len(v.pairs) |->
                                ReprOfStr(v.pairs[k][1]) \o <<":", " ">>
                                  \o Repr(v.pairs[k][2])])
                 \o <<"}">>

\* format(v, ''), what an f-string field {v} contributes: a str as it is,
\* anything else by its repr.
Format(v) == IF v.t = "str" THEN v.s ELSE Repr(v)

-----------------------------------------------------------------------------
(* zs: the core signer *)

\* The shared secret of line 53.
Secret == <<"j","u","n","j","i","e">>

\* The length of a key window in milliseconds, 5 * 60 * 1000.
WindowMs == 5 * 60 * 1000

\* hmac.new(key, msg, hashlib.sha256).hexdigest() as an ideal keyed hash:
\* the digest names the key and the message it was made from.
HmacSha256Hex(key, msg) == [t |-> "hexdigest", key |-> key, msg |-> msg]

\* digest.encode('utf-8'): the bytes of a hexadecimal digest.
EncodeDigest(digest) == [t |-> "bytes", of |-> digest]

\* Variant: division that truncates toward zero instead of flooring.
WindowIndexTruncated(ts) ==
  IF ts >= 0 THEN ts \div WindowMs ELSE -((-ts) \div WindowMs)

\* n of line 52: the window the timestamp falls in, by floor division.
WindowIndex(ts) == ts \div WindowMs

\* o of line 54: the key derived for the window of the timestamp.
DerivedKey(ts) ==
  HmacSha256Hex(EncodeUtf8(Secret), EncodeUtf8(StrOfInt(WindowIndex(ts))))

\* Variant: commas where line 51 has pipes.
MessageCommas(desc, t, ts) == desc \o <<",">> \o t \o <<",">> \o StrOfInt(ts)

\* Variant: the user content left out of the signed message.
MessageWithoutContent(desc, t, ts) == desc \o <<"|">> \o StrOfInt(ts)

\* i of line 51: f"{e}|{t}|{r}" with r = str(timestamp).
Message(desc, t, ts) == desc \o <<"|">> \o t \o <<"|">> \o StrOfInt(ts)

\* signature of line 55.
Signature(desc, t, ts) ==
  HmacSha256Hex(EncodeDigest(DerivedKey(ts)), EncodeUtf8(Message(desc, t, ts)))

\* Variant: the timestamp returned in its string form r.
zsRestringified(desc, t, ts) ==
  [signature |-> Signature(desc, t, ts), timestamp |-> PyStr(StrOfInt(ts))]

\* zs(e, t, timestamp): the dict returned at lines 57-60.
zs(desc, t, ts) ==
  [signature |-> Signature(desc, t, ts), timestamp |-> PyInt(ts)]

-----------------------------------------------------------------------------
(* generate_zs_signature *)

\* Variant: another claim of the payload read for the user id.
IdKeySub == <<"s","u","b">>

\* The key read from the payload at line 79.
IdKey == <<"i","d">>

\* The user id of line 82.
GuestUser == <<"g","u","e","s","t","-","u","s","e","r">>

\* Lines 78-79, the body of the try: the user id, or the exception raised.
ExtractUserId(tok) ==
  LET payload == decode_jwt_payload(tok) IN
  IF ~payload.ok THEN payload ELSE Subscript(payload.val, IdKey)

\* e of line 85.
Descriptor(rid, ts, uid) ==
  <<"r","e","q","u","e","s","t","I","d",",">> \o rid
    \o <<",","t","i","m","e","s","t","a","m","p",",">> \o StrOfInt(ts)
    \o <<",","u","s","e","r","_","i","d",",">> \o Format(uid)

\* Lines 77-88 after the try: what the call returns, when it returns, for
\* the outcome got of the try.
ResultAfter(got, rid, ts, content) ==
  LET uid == IF got.ok THEN got.val ELSE PyStr(GuestUser)
  IN zs(Descriptor(rid, ts, uid), content, ts)

\* What generate_zs_signature returns when it returns.
generate_zs_signature(tok, rid, ts, content) ==
  ResultAfter(ExtractUserId(tok), rid, ts, content)

\* The message handed to debug_log at line 81 for an exception of kind x.
LogMessage(x) == [text |-> "decode JWT token failed", exception |-> x]

\* What a call of debug_log, whose code is in app.utils.helpers, can do.
SinkOutcomes == {"returns", "raises"}

-----------------------------------------------------------------------------
(* The inputs of a call *)

MaxRequestIdLen == 1
MaxContentLen == 1
MaxWindow == 1

InputChars == {"a", "|"}

StringsUpTo(chars, n) == UNION {[1..k -> chars] : k \in 0..n}

RequestIds == StringsUpTo(InputChars, MaxRequestIdLen)
Contents == StringsUpTo(InputChars, MaxContentLen)

\* The first and the last millisecond of each window -1..MaxWindow.
Timestamps ==
  {w * WindowMs + d : w \in -1..MaxWindow, d \in {0, WindowMs - 1}}

\* Payload segments, each the unpadded base64url form of the text above it.
\* {"id":"u123"}
SegIdU123 == <<"e","y","J","p","Z","C","I","6","I","n","U","x","M","j","M","i","f","Q">>
\* {"id":"u12"}
SegIdU12 == <<"e","y","J","p","Z","C","I","6","I","n","U","x","M","i","J","9">>
\* {"id":"u1"}
SegIdU1 == <<"e","y","J","p","Z","C","I","6","I","n","U","x","I","n","0">>
\* {"id":7}
SegIdInt == <<"e","y","J","p","Z","C","I","6","N","3","0">>
\* {"id":null}
SegIdNull == <<"e","y","J","p","Z","C","I","6","b","n","V","s","b","H","0">>
\* {"id":true}
SegIdTrue == <<"e","y","J","p","Z","C","I","6","d","H","J","1","Z","X","0">>
\* {"id":"guest-user"}
SegIdGuest == <<"e","y","J","p","Z","C","I","6","I","m","d","1","Z","X","N","0","L","X","V","z","Z","X","I","i","f","Q">>
\* {"id":"a?"}
SegIdUrlsafe == <<"e","y","J","p","Z","C","I","6","I","m","E","_","I","n","0">>
\* {"id":"a","id":"b"}
SegIdTwice == <<"e","y","J","p","Z","C","I","6","I","m","E","i","L","C","J","p","Z","C","I","6","I","m","I","i","f","Q">>
\* { "id" : [1, "x"] }
SegIdList == <<"e","y","A","i","a","W","Q","i","I","D","o","g","W","z","E","s","I","C","J","4","I","l","0","g","f","Q">>
\* {"sub":"x"}
SegNoId == <<"e","y","J","z","d","W","I","i","O","i","J","4","I","n","0">>
\* [1]
SegJsonList == <<"W","z","F","d">>
\* "id"
SegJsonString == <<"I","m","l","k","I","g">>
\* hello
SegNotJson == <<"a","G","V","s","b","G","8">>

\* Segments that are no unpadded base64url text.
SegEmpty == <<>>
SegOneChar == <<"e">>
SegNoAlphabet == <<"!","!","!","!">>
SegNotUtf8 == <<"_","_","_","_">>
\* {"id":"u123"} with its padding written out
SegPadded == SegIdU123 \o <<"=","=">>
\* {"id":"u123"} with a character outside the alphabet in it
SegJunkInside == SubSeq(SegIdU123, 1, 12) \o <<"!">> \o SubSeq(SegIdU123, 13, 18)

PayloadSegments ==
  {SegIdU123, SegIdU12, SegIdU1, SegIdInt, SegIdNull, SegIdTrue, SegIdGuest,
   SegIdUrlsafe, SegIdTwice, SegIdList, SegNoId, SegJsonList, SegJsonString,
   SegNotJson, SegEmpty, SegOneChar, SegNoAlphabet, SegNotUtf8, SegPadded,
   SegJunkInside}

\* What may stand before and after the payload segment.
Headers == {<<>>, SegIdU12}
Tails == {<<>>, <<".","s">>, <<".","t",".","u">>}

Tokens ==
  {<<"h",".">> \o seg \o <<".","s">> : seg \in PayloadSegments}
    \cup {hdr \o <<".">> \o seg \o tail :
            hdr \in Headers, seg \in {SegIdU123, SegNoId, SegOneChar},
            tail \in Tails}
    \cup {<<>>, <<"a","b","c">>}

-----------------------------------------------------------------------------
(* One call of generate_zs_signature, statement by statement *)

Unset == [t |-> "unset"]

Init ==
  /\ token \in Tokens
  /\ request_id \in RequestIds
  /\ timestamp \in Timestamps
  /\ user_content \in Contents
  /\ pc = "try"
  /\ exc = "none"
  /\ user_id = Unset
  /\ log = <<>>
  /\ e = <<>>
  /\ o = Unset
  /\ i = <<>>
  /\ result = Unset
  /\ raised = "none"

\* Variant: the sink invoked on the path without an exception as well.
ExtractSucceedsLogged ==
  /\ pc = "try"
  /\ LET got == ExtractUserId(token) IN
       /\ got.ok
       /\ user_id' = got.val
  /\ log' = Append(log, LogMessage("none"))
  /\ pc' = "build"
  /\ UNCHANGED <<inputs, exc, e, o, i, result, raised>>

\* Lines 78-79 run to the end: the user id is the payload's id.
ExtractSucceeds ==
  /\ pc = "try"
  /\ LET got == ExtractUserId(token) IN
       /\ got.ok
       /\ user_id' = got.val
  /\ pc' = "build"
  /\ UNCHANGED <<inputs, exc, log, e, o, i, result, raised>>

\* Lines 78-80: the try raises and the handler catches the exception.
ExtractFails ==
  /\ pc = "try"
  /\ LET got == ExtractUserId(token) IN
       /\ ~got.ok
       /\ exc' = got.exc
  /\ pc' = "except"
  /\ UNCHANGED <<inputs, user_id, log, e, o, i, result, raised>>

\* Lines 81-82: debug_log returns and the fallback user id is taken.
DebugLogReturns ==
  /\ pc = "except"
  /\ "returns" \in SinkOutcomes
  /\ log' = Append(log, LogMessage(exc))
  /\ user_id' = PyStr(GuestUser)
  /\ pc' = "build"
  /\ UNCHANGED <<inputs, exc, e, o, i, result, raised>>

\* Line 81: debug_log raises inside the handler, which nothing guards, so
\* the exception leaves generate_zs_signature.
DebugLogRaises ==
  /\ pc = "except"
  /\ "raises" \in SinkOutcomes
  /\ log' = Append(log, LogMessage(exc))
  /\ raised' = "SinkFailure"
  /\ pc' = "raised"
  /\ UNCHANGED <<inputs, exc, user_id, e, o, i, result>>

\* Line 85.
BuildDescriptor ==
  /\ pc = "build"
  /\ e' = Descriptor(request_id, timestamp, user_id)
  /\ pc' = "zs"
  /\ UNCHANGED <<inputs, exc, user_id, log, o, i, result, raised>>

\* Line 88 and the body of zs, lines 50-60.
CallZs ==
  /\ pc = "zs"
  /\ i' = Message(e, user_content, timestamp)
  /\ o' = DerivedKey(timestamp)
  /\ result' = zs(e, user_content, timestamp)
  /\ pc' = "done"
  /\ UNCHANGED <<inputs, exc, user_id, log, e, raised>>

Next ==
  \/ ExtractSucceeds
  \/ ExtractFails
  \/ DebugLogReturns
  \/ DebugLogRaises
  \/ BuildDescriptor
  \/ CallZs

Spec == Init /\ [][Next]_vars

-----------------------------------------------------------------------------
(* Properties *)

\* The functions of the token, tabulated over the tokens of the model.
SegmentsOf == [tok \in Tokens |-> Split(tok)]
PayloadOf == [tok \in Tokens |-> decode_jwt_payload(tok)]
ExtractedOf == [tok \in Tokens |-> ExtractUserId(tok)]

Segments == SegmentsOf[token]
HasSecondSegment == Len(Segments) >= 2
SecondSegment == Segments[2]
Payload == PayloadOf[token]

\* The parsed payload is a JSON object with a member named id.
HasKeyId(p) ==
  /\ p.t = "dict"
  /\ \E k \in 1..Len(p.pairs) : p.pairs[k][1] = <<"i","d">>

EndsWith(s, suffix) ==
  /\ Len(s) >= Len(suffix)
  /\ SubSeq(s, Len(s) - Len(suffix) + 1, Len(s)) = suffix

UserIdField == <<",","u","s","e","r","_","i","d",",">>

\* The token has no second segment, or the segment does not decode to JSON,
\* or the decoded payload has no key id.
ExtractionCannotSucceed ==
  \/ ~HasSecondSegment
  \/ ~Payload.ok
  \/ ~HasKeyId(Payload.val)

\* C1: for a token with fewer than two segments, an undecodable or
\* unparseable payload segment, or a payload without key id, the user id is
\* exactly "guest-user", in the variable and in the descriptor, and the call
\* goes on to return a result: nothing but a failure of the log sink itself
\* leaves the call as an exception.
C1_FallbackIsGuestUser ==
  ExtractionCannotSucceed =>
    /\ pc \in {"build", "zs", "done"} =>
         user_id = PyStr(<<"g","u","e","s","t","-","u","s","e","r">>)
    /\ pc \in {"zs", "done"} =>
         EndsWith(e, UserIdField \o <<"g","u","e","s","t","-","u","s","e","r">>)
    /\ pc = "raised" => raised = "SinkFailure"
    /\ pc = "done" => result # Unset /\ raised = "none"
    /\ pc = "try" => ~ExtractedOf[token].ok
    /\ pc = "except" => ENABLED DebugLogReturns
    /\ pc = "build" => ENABLED BuildDescriptor
    /\ pc = "zs" => ENABLED CallZs

C1_Witness ==
  /\ pc = "done"
  /\ HasSecondSegment /\ Payload.ok /\ ~HasKeyId(Payload.val)
  /\ exc = "KeyError"
  /\ result # Unset

\* C2: for a token whose second segment decodes to a JSON object with key
\* id, the user id is that payload's id value, the descriptor carries it, and
\* the fallback (handler, log entry, "guest-user" substitution) is not taken.
C2_PayloadIdIsUsed ==
  (HasSecondSegment /\ Payload.ok /\ HasKeyId(Payload.val)) =>
    /\ pc # "except" /\ exc = "none" /\ log = <<>>
    /\ pc \in {"build", "zs", "done"} =>
         \E k \in 1..Len(Payload.val.pairs) :
            Payload.val.pairs[k] = <<(<<"i","d">>), user_id>>
    /\ pc \in {"zs", "done"} => EndsWith(e, UserIdField \o Format(user_id))

C2_Witness ==
  /\ pc = "done"
  /\ SecondSegment = SegIdU123
  /\ user_id = PyStr(<<"u","1","2","3">>)
  /\ EndsWith(e, UserIdField \o <<"u","1","2","3">>)

RECURSIVE ValueOfDigits(_)
\* The number a run of decimal digits writes.
ValueOfDigits(ds) ==
  IF ds = <<>> THEN 0
  ELSE ValueOfDigits(SubSeq(ds, 1, Len(ds) - 1)) * 10
         + ((CHOOSE d \in 1..10 : DecimalDigits[d] = ds[Len(ds)]) - 1)

\* r is the plain base-10 form of n: digits only, a leading "-" for a
\* negative number, no leading zeros, no separators.
IsDecimalOf(r, n) ==
  LET ds == IF r # <<>> /\ r[1] = "-" THEN Tail(r) ELSE r IN
  /\ ds # <<>>
  /\ \A k \in 1..Len(ds) : \E d \in 1..10 : DecimalDigits[d] = ds[k]
  /\ Len(ds) > 1 => ds[1] # "0"
  /\ (r[1] = "-") = (n < 0)
  /\ ValueOfDigits(ds) = (IF n < 0 THEN -n ELSE n)

\* C3: the signed message is "requestId,{request_id},timestamp,{timestamp},
\* user_id,{user_id}", then "|", the user content, "|" and the decimal
\* timestamp, nothing else, and the returned signature is the HMAC of that
\* message under the derived key.
C3_SignedMessageIsCanonical ==
  pc = "done" =>
    /\ \E k \in 1..Len(i) :
         LET r == SubSeq(i, k, Len(i)) IN
         /\ IsDecimalOf(r, timestamp)
         /\ i = <<"r","e","q","u","e","s","t","I","d",",">> \o request_id
                  \o <<",","t","i","m","e","s","t","a","m","p",",">> \o r
                  \o <<",","u","s","e","r","_","i","d",",">> \o Format(user_id)
                  \o <<"|">> \o user_content \o <<"|">> \o r
    /\ result.signature = HmacSha256Hex(EncodeDigest(o), EncodeUtf8(i))

C3_Witness ==
  /\ pc = "done"
  /\ request_id = <<"|">>
  /\ user_content = <<"a">>
  /\ timestamp = 0 - 1
  /\ user_id = PyStr(<<"u","1">>)
  /\ i = <<"r","e","q","u","e","s","t","I","d",",","|",
           ",","t","i","m","e","s","t","a","m","p",",","-","1",
           ",","u","s","e","r","_","i","d",",","u","1",
           "|","a","|","-","1">>

\* C4: the derived key is the same for two timestamps exactly when they have
\* the same window index timestamp // 300000.
C4_KeyChangesOnlyAtWindowBoundary ==
  pc = "done" =>
    \A ts2 \in Timestamps :
      (ts2 \div 300000 = timestamp \div 300000) <=> (DerivedKey(ts2) = o)

C4_Witness ==
  /\ pc = "done"
  /\ timestamp = 0
  /\ \E ts2 \in Timestamps : ts2 # timestamp /\ DerivedKey(ts2) = o
  /\ \E ts2 \in Timestamps : ts2 = timestamp - 1 /\ DerivedKey(ts2) # o

\* C5: with the other inputs held, changing the request id, or the user
\* content, or the timestamp changes the key and message of the final HMAC,
\* hence the signature.
C5_EachInputChangesTheSignature ==
  pc = "done" =>
    /\ \A rid2 \in RequestIds \ {request_id} :
         Signature(Descriptor(rid2, timestamp, user_id),
                   user_content, timestamp) # result.signature
    /\ \A c2 \in Contents \ {user_content} :
         Signature(Descriptor(request_id, timestamp, user_id),
                   c2, timestamp) # result.signature
    /\ \A ts2 \in Timestamps \ {timestamp} :
         Signature(Descriptor(request_id, ts2, user_id),
                   user_content, ts2) # result.signature

C5_Witness ==
  /\ pc = "done"
  /\ request_id = <<"a">>
  /\ user_content = <<"|">>
  /\ Signature(Descriptor(<<"|">>, timestamp, user_id), <<"a">>, timestamp)
       # result.signature

\* C6: a failure of the log sink on the fallback path does not leave the
\* call; the call still returns.
C6_SinkFailureDoesNotPropagate ==
  ~(pc = "raised" /\ raised = "SinkFailure")

\* C7: tokens with the same second segment give, with the same request id,
\* timestamp and user content, the same result, whatever their header,
\* signature segment and further segments are.
C7_OnlyPayloadSegmentMatters ==
  (pc = "done" /\ HasSecondSegment) =>
    \A tok2 \in Tokens :
      (Len(SegmentsOf[tok2]) >= 2 /\ SegmentsOf[tok2][2] = SecondSegment) =>
        ResultAfter(ExtractedOf[tok2], request_id, timestamp, user_content)
          = result

C7_Witness ==
  /\ pc = "done"
  /\ HasSecondSegment
  /\ exc = "none"
  /\ \E tok2 \in Tokens :
       /\ Len(SegmentsOf[tok2]) >= 2 /\ SegmentsOf[tok2][2] = SecondSegment
       /\ Len(SegmentsOf[tok2]) # Len(Segments)
       /\ SegmentsOf[tok2][1] # Segments[1]

\* C8: on every path that returns, the fallback path included, the result's
\* timestamp is the timestamp passed in, an integer and not its string form.
C8_TimestampEchoed ==
  pc = "done" =>
    /\ result.timestamp.t = "int"
    /\ result.timestamp.n = timestamp

C8_Witness ==
  /\ pc = "done"
  /\ exc # "none"
  /\ timestamp < 0
  /\ result.timestamp = [t |-> "int", n |-> timestamp]

\* The log holds nothing while no extraction has failed and while the
\* handler has not yet called the sink, and exactly the one entry after.
LogFollowsExtraction ==
  /\ exc = "none" => log = <<>>
  /\ pc = "except" => log = <<>> /\ result = Unset
  /\ (exc # "none" /\ pc # "except") => Len(log) = 1

\* C9: the log sink is invoked exactly once when the extraction fails and
\* never when it succeeds; the invocation comes before the signature is
\* computed; and no step changes anything a caller can see but the log.
C9_LogOnceBeforeSigning ==
  /\ []LogFollowsExtraction
  /\ [][/\ inputs' = inputs
        /\ log' # log => (pc = "except" /\ result = Unset /\ result' = Unset)
        /\ result' # result => (pc = "zs" /\ (exc # "none" => Len(log) = 1))
       ]_vars

C9_Witness ==
  /\ pc = "done"
  /\ exc = "IndexError"
  /\ Len(log) = 1
  /\ result # Unset

\* C10: for a payload segment of length L the decoder is handed the segment
\* followed by (4 - L % 4) % 4 characters '=', none when L is a multiple of
\* 4, so that the padded length is a multiple of 4.
C10_PaddingCompletesTheQuad ==
  (pc # "try" /\ HasSecondSegment) =>
    LET L == Len(SecondSegment)
        padded == PaddedPayload(SecondSegment)
    IN /\ Len(padded) - L = (4 - (L % 4)) % 4
       /\ Len(padded) % 4 = 0
       /\ SubSeq(padded, 1, L) = SecondSegment
       /\ \A k \in (L + 1)..Len(padded) : padded[k] = "="
       /\ L % 4 = 0 => padded = SecondSegment

C10_Witness ==
  /\ pc = "done"
  /\ HasSecondSegment
  /\ Len(SecondSegment) = 16
  /\ PaddedPayload(SecondSegment) = SecondSegment

====
